---- MODULE Spec2Model ----
(***************************************************************************)
(* Model of the Markdown preview renderer (ux/src/renderers/markdown.js)   *)
(* and of the refreshToken resolver                                        *)
(* (server/graph/resolvers/authentication.mjs).                            *)
(*                                                                         *)
(* A document is the token stream the markdown-it parser hands to the      *)
(* renderer.  HTML is kept as a sequence of chunks, one per token, each a  *)
(* sequence of string fragments whose concatenation is the emitted text.   *)
(* A string (fence content, math content) is a sequence of characters or   *)
(* lexemes.  An optional value (undefined / null) is the empty sequence,   *)
(* a present value v is <<v>>.                                             *)
(***************************************************************************)
EXTENDS Integers, Sequences, FiniteSets, TLC

VARIABLES
    linesMap,     \* this.linesMap
    macros,       \* the macros object shared by both katex rules
    src,          \* token stream of the latest render call
    html,         \* chunks returned by the latest render call
    outcome,      \* "none" | "returned" | "thrown": how the latest render ended
    hljsCalls,    \* calls made to highlight.js during the latest render
    warnings,     \* token indexes passed to console.warn during the latest render
    queryLine,    \* argument of the latest getClosestPreviewLine call
    closest,      \* its return value
    firstRender,  \* history: <<src, html, linesMap, outcome>> of the first render call
    hadEntries,   \* history: the map held entries when the latest render began
    now,          \* server clock, in milliseconds
    tokenRenewal, \* WIKI.config.auth.tokenRenewal
    authCall,     \* <<args.token, clock>> of the latest refreshToken call
    authResult,   \* what the latest refreshToken call returned
    refreshCalls  \* user ids passed to WIKI.db.users.refreshToken

rendererVars == <<linesMap, macros, src, html, outcome, hljsCalls, warnings>>
queryVars == <<queryLine, closest>>
historyVars == <<firstRender, hadEntries>>
authVars == <<now, tokenRenewal, authCall, authResult, refreshCalls>>
vars == <<rendererVars, queryVars, historyVars, authVars>>

\* ---------------------------------------------------------------- bounds
MaxTokens == 2      \* tokens per document
MaxLine == 2        \* greatest 0-based source line of a token
MaxContent == 5     \* characters in a fenced block
MaxReTokens == 1    \* tokens per document when one instance renders repeatedly
MaxTicks == 8       \* clock ticks of half a second
MaxExp == 3         \* greatest exp claim of a token, in seconds

\* ---------------------------------------------------------------- helpers
Range(s) == {s[i] : i \in 1..Len(s)}

SeqsUpTo(S, n) == UNION {[1..k -> S] : k \in 0..n}

\* lodash times(n, () => x)
times(n, x) == [i \in 1..n |-> x]

Count(s, x) == Cardinality({i \in 1..Len(s) : s[i] = x})

\* ---------------------------------------------------------------- tokens
LineRuleTypes == {"paragraph_open", "heading_open", "blockquote_open"}

TagOf(type) ==
    CASE type = "paragraph_open" -> "p"
      [] type = "heading_open" -> "h1"
      [] type = "blockquote_open" -> "blockquote"
      [] type = "bullet_list_open" -> "ul"
      [] OTHER -> ""

Token(type, map, level, info, content) ==
    [type |-> type, tag |-> TagOf(type), map |-> map, level |-> level,
     attrs |-> <<>>, info |-> info, content |-> content]

\* token.map is null or [startLine, endLine]
Maps == {<<>>} \cup {<<l, l + 1>> : l \in 0..MaxLine}

BlockTokensOf(types) ==
    {Token(ty, m, lv, "", <<>>) : ty \in types, m \in Maps, lv \in 0..1}

\* A top-level paragraph that markdown-it-attrs has given a class.
ParagraphWithClass ==
    [Token("paragraph_open", <<0, 1>>, 0, "", <<>>) EXCEPT !.attrs = <<<<"class", "note">>>>]

BlockTokens == BlockTokensOf(LineRuleTypes \cup {"bullet_list_open"}) \cup {ParagraphWithClass}

\* The parser emits the top-level blocks in document order, so their start
\* lines never decrease; nested tokens are not so constrained (the footnote
\* plugin moves footnote bodies, nested at level 1, to the end of the stream).
DocOrdered(d) ==
    \A i, j \in 1..Len(d) :
        (i < j /\ d[i].level = 0 /\ d[j].level = 0
            /\ d[i].map # <<>> /\ d[j].map # <<>>) => d[i].map[1] <= d[j].map[1]

DocsOver(T, n) == {d \in SeqsUpTo(T, n) : DocOrdered(d)}

\* ---------------------------------------------------------------- lodash escape
escapeChar(c) ==
    CASE c = "&" -> "&amp;"
      [] c = "<" -> "&lt;"
      [] c = ">" -> "&gt;"
      [] c = "\"" -> "&quot;"
      [] c = "'" -> "&#39;"
      [] OTHER -> c

escape(str) == [i \in 1..Len(str) |-> escapeChar(str[i])]

\* ---------------------------------------------------------------- Buffer.from(str, 'base64').toString()
\* Value of a base64 digit; anything else is no digit (64) and is skipped.
Sextet(c) ==
    CASE c = "A" -> 0
      [] c = "P" -> 15
      [] OTHER -> 64

RECURSIVE Base64Bytes(_)
Base64Bytes(s) ==
    IF Len(s) < 2 THEN <<>>
    ELSE LET b1 == s[1] * 4 + (s[2] \div 16)
             b2 == (s[2] % 16) * 16 + (s[3] \div 4)
             b3 == (s[3] % 4) * 64 + s[4]
         IN  IF Len(s) = 2 THEN <<b1>>
             ELSE IF Len(s) = 3 THEN <<b1, b2>>
             ELSE <<b1, b2, b3>> \o Base64Bytes(SubSeq(s, 5, Len(s)))

\* UTF-8 decoding of one byte that no continuation byte follows.
Utf8Char(b) ==
    IF b >= 128 THEN "U+FFFD"
    ELSE IF b = 60 THEN "<"
    ELSE "U+00" \o ToString(b)

base64Decode(str) ==
    LET digits == SelectSeq(str, LAMBDA c : Sextet(c) < 64)
        bytes == Base64Bytes([i \in 1..Len(digits) |-> Sextet(digits[i])])
    IN  [i \in 1..Len(bytes) |-> Utf8Char(bytes[i])]

\* ---------------------------------------------------------------- highlight.js
RegisteredLanguages == {"js"}

\* hljs.highlight(str, { language, ignoreIllegals }): throws on a language
\* that is not registered; the markup keeps every newline of the code.
hljsHighlight(str, language) ==
    [thrown |-> language \notin RegisteredLanguages, value |-> escape(str)]

\* hljs.highlightAuto(str)
hljsHighlightAuto(str) == [thrown |-> FALSE, value |-> escape(str)]

\* ---------------------------------------------------------------- the highlight option
isDiagram(lang) == lang = "diagram"

\* Faulty variant: plantuml is left to the highlighter.
isClientDiagramMermaidOnly(lang) == lang = "mermaid"

isClientDiagram(lang) == lang \in {"mermaid", "plantuml"}

\* highlighted.value.match(/\n/g): null (the empty sequence) without a match
matchNewlines(value) == SelectSeq(value, LAMBDA c : c = "\n")

\* Faulty variant: the gutter starts at one line instead of two.
lineNumsFromOne(lineCount) ==
    IF lineCount >= 1
    THEN <<"<span aria-hidden=\"true\" class=\"line-numbers-rows\">">>
            \o times(lineCount, "<span></span>") \o <<"</span>">>
    ELSE <<>>

lineNums(lineCount) ==
    IF lineCount > 1
    THEN <<"<span aria-hidden=\"true\" class=\"line-numbers-rows\">">>
            \o times(lineCount, "<span></span>") \o <<"</span>">>
    ELSE <<>>

\* `${lineCount > 1 && 'line-numbers'}`
preClass(lineCount) == IF lineCount > 1 THEN "line-numbers" ELSE "false"

highlightCode(str, lang) ==
    LET call == IF lang # ""
                THEN [fn |-> "highlight", language |-> lang, ignoreIllegals |-> TRUE]
                ELSE [fn |-> "highlightAuto", language |-> "", ignoreIllegals |-> FALSE]
        highlighted == IF lang # "" THEN hljsHighlight(str, lang) ELSE hljsHighlightAuto(str)
        matches == matchNewlines(highlighted.value)
        lineCount == Len(matches)
    IN  IF highlighted.thrown \/ matches = <<>>
        THEN [thrown |-> TRUE, out |-> <<>>, calls |-> <<call>>]
        ELSE [thrown |-> FALSE,
              out |-> <<"<pre class=\"codeblock " \o preClass(lineCount) \o "\">",
                        "<code class=\"language-" \o lang \o "\">">>
                      \o highlighted.value \o lineNums(lineCount)
                      \o <<"</code>", "</pre>">>,
              calls |-> <<call>>]

highlight(str, lang) ==
    IF isDiagram(lang)
    THEN [thrown |-> FALSE,
          out |-> <<"<pre class=\"diagram\">">> \o base64Decode(str) \o <<"</pre>">>,
          calls |-> <<>>]
    ELSE IF isClientDiagram(lang)
    THEN [thrown |-> FALSE,
          out |-> <<"<pre class=\"codeblock-" \o lang \o "\">", "<code>">>
                  \o escape(str) \o <<"</code>", "</pre>">>,
          calls |-> <<>>]
    ELSE highlightCode(str, lang)

\* ---------------------------------------------------------------- katex
\* One lexeme of an expression: a symbol, a global definition of \foo, a use
\* of \foo (an undefined control sequence unless defined), an unmatched brace.
RECURSIVE katexParse(_, _)
katexParse(lexemes, m) ==
    IF lexemes = <<>> THEN [thrown |-> FALSE, body |-> <<>>, macros |-> m]
    ELSE LET l == Head(lexemes)
             rest == katexParse(Tail(lexemes), IF l = "\\gdef\\foo{x}" THEN m \cup {"\\foo"} ELSE m)
             sym == <<"<span class=\"mord\">x</span>">>
         IN  IF l = "{" \/ (l = "\\foo" /\ "\\foo" \notin m)
             THEN [thrown |-> TRUE, body |-> <<>>, macros |-> m]
             ELSE [rest EXCEPT !.body = (IF l = "\\gdef\\foo{x}" THEN <<>> ELSE sym) \o @]

\* katex.renderToString(content, { displayMode, macros })
katexRenderToString(content, displayMode, m) ==
    LET p == katexParse(content, m)
    IN  [thrown |-> p.thrown,
         markup |-> IF p.thrown THEN <<>>
                    ELSE <<IF displayMode THEN "<span class=\"katex-display\">"
                           ELSE "<span class=\"katex\">">> \o p.body \o <<"</span>">>,
         macros |-> p.macros]

\* ---------------------------------------------------------------- markdown-it Token and Renderer
attrIndex(attrs, name) ==
    IF \E i \in 1..Len(attrs) : attrs[i][1] = name
    THEN CHOOSE i \in 1..Len(attrs) :
            attrs[i][1] = name /\ \A j \in 1..(i - 1) : attrs[j][1] # name
    ELSE 0

attrSet(attrs, name, value) ==
    IF attrIndex(attrs, name) = 0 THEN Append(attrs, <<name, value>>)
    ELSE [attrs EXCEPT ![attrIndex(attrs, name)] = <<name, value>>]

attrJoin(attrs, name, value) ==
    IF attrIndex(attrs, name) = 0 THEN Append(attrs, <<name, value>>)
    ELSE [attrs EXCEPT ![attrIndex(attrs, name)] = <<name, @[2] \o " " \o value>>]

renderAttrs(attrs) ==
    [i \in 1..Len(attrs) |-> " " \o attrs[i][1] \o "=\"" \o attrs[i][2] \o "\""]

\* slf.renderToken(tokens, idx, options)
renderToken(token) == <<"<" \o token.tag>> \o renderAttrs(token.attrs) \o <<">", "\n">>

\* The default fence rule: the highlight option's markup, which begins with
\* <pre in every branch, followed by a newline.
fenceRule(st, token) ==
    LET h == highlight(token.content, token.info)
    IN  [st EXCEPT !.thrown = h.thrown,
                   !.hljsCalls = @ \o h.calls,
                   !.out = IF h.thrown THEN <<>> ELSE h.out \o <<"\n">>]

\* ---------------------------------------------------------------- the renderer's rules
katexInlineFallback(token) == token.content

katex_inline(st, token, idx) ==
    LET r == katexRenderToString(token.content, FALSE, st.macros)
    IN  IF r.thrown
        THEN [st EXCEPT !.macros = r.macros, !.warnings = Append(@, idx),
                        !.out = katexInlineFallback(token)]
        ELSE [st EXCEPT !.macros = r.macros, !.out = r.markup]

\* Faulty variant: the fallback keeps the paragraph wrapper.
katexBlockFallbackWrapped(token) == <<"<p>">> \o token.content \o <<"</p>">>

katexBlockFallback(token) == token.content

katex_block(st, token, idx) ==
    LET r == katexRenderToString(token.content, TRUE, st.macros)
    IN  IF r.thrown
        THEN [st EXCEPT !.macros = r.macros, !.warnings = Append(@, idx),
                        !.out = katexBlockFallback(token)]
        ELSE [st EXCEPT !.macros = r.macros, !.out = <<"<p>">> \o r.markup \o <<"</p>">>]

\* Faulty variant: the nesting level is not looked at.
hasLineAnyLevel(token) == token.map # <<>>

hasLine(token) == token.map # <<>> /\ token.level = 0

lineOf(token) == token.map[1] + 1

\* Faulty variant: the line is put in front.
unshiftLine(lm, line) == <<line>> \o lm

pushLine(lm, line) == Append(lm, line)

injectLineNumbers(st, token) ==
    IF hasLine(token)
    THEN LET line == lineOf(token)
             tagged == [token EXCEPT !.attrs =
                            attrSet(attrJoin(@, "class", "line"), "data-line", ToString(line))]
         IN  [st EXCEPT !.linesMap = pushLine(@, line), !.out = renderToken(tagged)]
    ELSE [st EXCEPT !.out = renderToken(token)]

\* renderer.rules[type], or the default renderToken when no rule is set
applyRule(st, token, idx) ==
    CASE token.type = "fence" -> fenceRule(st, token)
      [] token.type = "katex_inline" -> katex_inline(st, token, idx)
      [] token.type = "katex_block" -> katex_block(st, token, idx)
      [] token.type \in LineRuleTypes -> injectLineNumbers(st, token)
      [] OTHER -> [st EXCEPT !.out = renderToken(token)]

\* Renderer.render: the rules' results concatenated in token order; a rule
\* that throws ends the loop and the exception reaches the caller.
RECURSIVE rendererRender(_, _, _)
rendererRender(tokens, idx, st) ==
    IF idx > Len(tokens) \/ st.thrown THEN st
    ELSE LET r == applyRule(st, tokens[idx], idx)
         IN  rendererRender(tokens, idx + 1,
                 IF r.thrown THEN r ELSE [r EXCEPT !.html = Append(@, r.out)])

\* Faulty variant: the map is not emptied.
keepLinesMap(lm) == lm

resetLinesMap(lm) == <<>>

\* MarkdownRenderer.render(src), as a function of the instance's state
mdRender(tokens, lm, m) ==
    rendererRender(tokens, 1,
        [linesMap |-> resetLinesMap(lm), macros |-> m, html |-> <<>>, out |-> <<>>,
         hljsCalls |-> <<>>, warnings |-> <<>>, thrown |-> FALSE])

RECURSIVE findLast(_, _)
findLast(array, line) ==
    IF array = <<>> THEN <<>>
    ELSE IF array[Len(array)] <= line THEN <<array[Len(array)]>>
    ELSE findLast(SubSeq(array, 1, Len(array) - 1), line)

\* Faulty variant: find in place of findLast.
getClosestPreviewLineFirst(lm, line) ==
    LET hits == SelectSeq(lm, LAMBDA n : n <= line)
    IN  IF hits = <<>> THEN <<>> ELSE <<Head(hits)>>

getClosestPreviewLine(lm, line) == findLast(lm, line)

\* ---------------------------------------------------------------- actions
\* new MarkdownRenderer()
InitRenderer ==
    /\ linesMap = <<>>
    /\ macros = {}
    /\ src = <<>>
    /\ html = <<>>
    /\ outcome = "none"
    /\ hljsCalls = <<>>
    /\ warnings = <<>>
    /\ queryLine = <<>>
    /\ closest = <<>>
    /\ firstRender = <<>>
    /\ hadEntries = FALSE

\* MarkdownRenderer.render(src)
render(tokens) ==
    LET r == mdRender(tokens, linesMap, macros)
    IN  /\ linesMap' = r.linesMap
        /\ macros' = r.macros
        /\ src' = tokens
        /\ html' = IF r.thrown THEN <<>> ELSE r.html
        /\ outcome' = IF r.thrown THEN "thrown" ELSE "returned"
        /\ hljsCalls' = r.hljsCalls
        /\ warnings' = r.warnings
        /\ queryLine' = <<>>
        /\ closest' = <<>>
        /\ hadEntries' = (linesMap # <<>>)
        /\ UNCHANGED authVars

QueryLines == (0 - 1)..(MaxLine + 2)

query(line) ==
    /\ queryLine' = <<line>>
    /\ closest' = getClosestPreviewLine(linesMap, line)
    /\ UNCHANGED <<rendererVars, historyVars, authVars>>

\* ---------------------------------------------------------------- documents
ParagraphTop == Token("paragraph_open", <<0, 1>>, 0, "", <<>>)

ParagraphNested == Token("paragraph_open", <<0, 1>>, 1, "", <<>>)

DocsBlocks == DocsOver(BlockTokens, MaxTokens)

DocsRerender == DocsOver(BlockTokensOf({"paragraph_open"}), MaxReTokens)

FenceChars == {"P", "<", "\n"}

FenceLangs == {"", "diagram", "mermaid", "plantuml", "js", "nolang"}

FenceTokens ==
    {Token("fence", <<1, 2>>, 0, lang, str) :
        lang \in FenceLangs, str \in SeqsUpTo(FenceChars, MaxContent)}

DocsFence == {<<f>> : f \in FenceTokens} \cup {<<ParagraphTop, f>> : f \in FenceTokens}

MathExprs == {<<"x">>, <<"{">>, <<"\\gdef\\foo{x}">>, <<"\\foo">>}

MathTokens ==
    {Token(ty, <<>>, 0, "", e) : ty \in {"katex_inline", "katex_block"}, e \in MathExprs}

DocsMath == SeqsUpTo(MathTokens \cup {ParagraphTop, ParagraphNested}, MaxTokens)

DocsMathRerender == SeqsUpTo(MathTokens \cup {ParagraphTop, ParagraphNested}, MaxReTokens)

\* ---------------------------------------------------------------- renderer specifications
Render == \E d \in DocsRerender : render(d) /\ UNCHANGED firstRender

Query == \E line \in QueryLines : query(line)

RenderBlocks == outcome = "none" /\ \E d \in DocsBlocks : render(d) /\ UNCHANGED firstRender

RenderFence == outcome = "none" /\ \E d \in DocsFence : render(d) /\ UNCHANGED firstRender

RenderMathOnce == outcome = "none" /\ \E d \in DocsMath : render(d) /\ UNCHANGED firstRender

RenderMath ==
    \E d \in DocsMathRerender :
        /\ render(d)
        /\ firstRender' = IF firstRender = <<>> THEN <<src', html', linesMap', outcome'>>
                          ELSE firstRender

\* ---------------------------------------------------------------- refreshToken
Audience == "urn:wiki.js"

UserIds == {1, 2}

KnownUsers == {1}

\* A presented token: whether its RS256 signature verifies against
\* WIKI.config.auth.certs.public, and its aud, iss, exp and id claims.
Jwts ==
    [sig : BOOLEAN, aud : {Audience, "other"}, iss : {"urn:wiki.js", "other"},
     exp : 0..MaxExp, id : UserIds]

\* args.token: absent, or a token
AuthArgs == {<<>>} \cup {<<t>> : t \in Jwts}

\* ms('1s')
ms(str) ==
    CASE str = "1s" -> 1000
      [] str = "2s" -> 2000

\* jwt.verify(token, cert, { audience, issuer, algorithms, ignoreExpiration: true })
jwtVerify(token, audience, issuer) ==
    [thrown |-> ~(token.sig /\ token.aud = audience /\ token.iss = issuer),
     decoded |-> token]

\* Faulty variant: a token exactly tokenRenewal past its exp is refused.
isExpiredInclusive(nowMs, renewalMs, exp) == nowMs - renewalMs >= exp * 1000

\* DateTime.utc().minus(renewal) > DateTime.fromSeconds(exp)
isExpired(nowMs, renewalMs, exp) == nowMs - renewalMs > exp * 1000

\* WIKI.db.users.refreshToken(id)
usersRefreshToken(id) ==
    [thrown |-> id \notin KnownUsers, error |-> "ERR_USER", token |-> <<"jwt", id>>]

generateError(message) ==
    [jwt |-> <<>>, operation |-> [succeeded |-> FALSE, message |-> message]]

generateSuccess(message) == [succeeded |-> TRUE, message |-> message]

refreshTokenResult(args, nowMs, renewal) ==
    IF args = <<>>
    THEN [result |-> generateError("ERR_MISSING_TOKEN"), calls |-> <<>>]
    ELSE LET v == jwtVerify(args[1], Audience, "urn:wiki.js")
         IN  IF v.thrown
             THEN [result |-> generateError("ERR_INVALID_TOKEN"), calls |-> <<>>]
             ELSE IF isExpired(nowMs, ms(renewal), v.decoded.exp)
             THEN [result |-> generateError("ERR_EXPIRED_TOKEN"), calls |-> <<>>]
             ELSE LET newToken == usersRefreshToken(v.decoded.id)
                  IN  IF newToken.thrown
                      THEN [result |-> generateError(newToken.error),
                            calls |-> <<v.decoded.id>>]
                      ELSE [result |-> [jwt |-> <<newToken.token>>,
                                        operation |-> generateSuccess("Token refreshed successfully")],
                            calls |-> <<v.decoded.id>>]

InitAuth ==
    /\ now = 0
    /\ authCall = <<>>
    /\ authResult = <<>>
    /\ refreshCalls = <<>>

refreshToken(args) ==
    LET r == refreshTokenResult(args, now, tokenRenewal)
    IN  /\ authCall' = <<args, now>>
        /\ authResult' = <<r.result>>
        /\ refreshCalls' = r.calls
        /\ UNCHANGED <<now, tokenRenewal, rendererVars, queryVars, historyVars>>

RefreshToken == \E args \in AuthArgs : refreshToken(args)

Tick ==
    /\ now < MaxTicks * 500
    /\ now' = now + 500
    /\ UNCHANGED <<tokenRenewal, authCall, authResult, refreshCalls,
                   rendererVars, queryVars, historyVars>>

\* ---------------------------------------------------------------- specifications
Init == InitRenderer /\ InitAuth /\ tokenRenewal = "1s"

\* One instance renders document after document, with queries in between.
Next == Render \/ Query

Spec == Init /\ [][Next]_vars

\* A fresh instance renders one document of block tokens, then is queried.
NextLines == RenderBlocks \/ Query

SpecLines == Init /\ [][NextLines]_vars

\* A fresh instance renders one document holding a fenced block.
NextFence == RenderFence

SpecFence == Init /\ [][NextFence]_vars

\* A fresh instance renders one document holding math.
NextMathOnce == RenderMathOnce

SpecMathOnce == Init /\ [][NextMathOnce]_vars

\* One instance renders documents holding math one after the other.
NextMath == RenderMath

SpecMath == Init /\ [][NextMath]_vars

\* The resolver is called again and again as the clock advances.
InitConfigured == InitRenderer /\ InitAuth /\ tokenRenewal \in {"1s", "2s"}

NextAuth == RefreshToken \/ Tick

SpecAuth == InitConfigured /\ [][NextAuth]_vars

\* ======================================================================
\* Properties
\* ======================================================================
Max(S) == CHOOSE x \in S : \A y \in S : y <= x

\* A token the line mapper records: one of the three block types, carrying
\* a source range, at nesting level 0.
Qualifying(t) ==
    /\ t.type \in {"paragraph_open", "heading_open", "blockquote_open"}
    /\ t.map # <<>>
    /\ t.level = 0

\* The 1-based start lines of a document's qualifying tokens, in order.
ExpectedLines(doc) ==
    LET q == SelectSeq(doc, Qualifying)
    IN  [i \in 1..Len(q) |-> q[i].map[1] + 1]

DataLineAttr(n) == " data-line=\"" \o ToString(n) \o "\""

\* C1: getClosestPreviewLine(L) returns the greatest entry of the line map
\* that is <= L, and undefined when the map is empty or every entry exceeds L.
C1_ClosestIsGreatestAtOrBefore ==
    queryLine # <<>> =>
        LET atOrBefore == {n \in Range(linesMap) : n <= queryLine[1]}
        IN  closest = IF atOrBefore = {} THEN <<>> ELSE <<Max(atOrBefore)>>

\* C1 witness: a query that falls strictly between two entries of the map
\* and is answered with the earlier one.
C1_Witness ==
    /\ outcome = "returned"
    /\ queryLine # <<>>
    /\ closest # <<>>
    /\ closest[1] < queryLine[1]
    /\ \E n \in Range(linesMap) : n > queryLine[1]

\* C2: the line map reflects only the most recent render: whatever was
\* rendered before, and however many queries followed, it holds exactly the
\* lines of the latest document (and nothing before the first render).
C2_MapOfLatestRenderOnly ==
    linesMap = IF outcome = "none" THEN <<>> ELSE ExpectedLines(src)

\* C2 witness: the instance held entries when the latest render began, that
\* render recorded entries of its own and no more than its document has
\* tokens, and a query has followed it.
C2_Witness ==
    /\ hadEntries
    /\ outcome = "returned"
    /\ linesMap # <<>>
    /\ Len(linesMap) <= Len(src)
    /\ queryLine # <<>>

\* C3: a call to render returns HTML and never throws to the caller.
C3_RenderNeverThrows == outcome # "thrown"

\* C4: rendering a document again on the same instance, with any renders in
\* between, gives the HTML and line map its first render gave.
C4_SameDocumentSameResult ==
    (firstRender # <<>> /\ src = firstRender[1]) =>
        /\ html = firstRender[2]
        /\ linesMap = firstRender[3]
        /\ outcome = firstRender[4]

\* C5: after a completed render the line map is non-decreasing and every
\* entry is at least 1.
C5_MapSortedAndPositive ==
    outcome = "returned" =>
        /\ \A i, j \in 1..Len(linesMap) : i < j => linesMap[i] <= linesMap[j]
        /\ \A i \in 1..Len(linesMap) : linesMap[i] >= 1

\* C5 witness: a completed render of two top-level blocks on different
\* lines, both recorded.
C5_Witness ==
    /\ outcome = "returned"
    /\ Len(linesMap) >= 2
    /\ linesMap[1] < linesMap[2]

\* C6: an entry is recorded exactly for the paragraph, heading and
\* blockquote tokens that carry a source range at level 0; its value is the
\* start line plus 1, and the element carries that value as data-line and
\* the class line (after any class it already had).  Any other token adds no entry, gets no data-line
\* attribute and is rendered by the default token renderer.
C6_EntryIffTopLevelBlock ==
    outcome = "returned" =>
        /\ linesMap = ExpectedLines(src)
        /\ Len(html) = Len(src)
        /\ \A i \in 1..Len(src) :
            IF Qualifying(src[i])
            THEN /\ DataLineAttr(src[i].map[1] + 1) \in Range(html[i])
                 /\ (IF src[i].attrs = <<>> THEN " class=\"line\"" ELSE " class=\"note line\"")
                        \in Range(html[i])
                 /\ Head(html[i]) = "<" \o src[i].tag
            ELSE /\ \A n \in 0..(MaxLine + 2) : DataLineAttr(n) \notin Range(html[i])
                 /\ html[i] = <<"<" \o src[i].tag, ">", "\n">>

\* C6 witness: one document holds a recorded block and a block of the same
\* types that is nested or has no source range.
C6_Witness ==
    /\ outcome = "returned"
    /\ \E i, j \in 1..Len(src) :
        /\ Qualifying(src[i])
        /\ src[j].type \in LineRuleTypes
        /\ ~Qualifying(src[j])

\* The fenced block of a document of DocsFence is its last token.
FenceOf(doc) == doc[Len(doc)]

\* C7: when typesetting fails for an inline or block math token (an
\* unmatched brace always does), render still returns; the token's chunk is
\* exactly its raw content (no paragraph wrapper for block math), and every
\* other token is rendered, and the line map filled, as when the failing
\* expressions are replaced by ones that typeset.
C7_MathFailureIsLocal ==
    outcome # "none" =>
        /\ outcome = "returned"
        /\ Len(html) = Len(src)
        /\ \A i \in Range(warnings) : html[i] = src[i].content
        /\ LET healed == [j \in 1..Len(src) |->
                            IF j \in Range(warnings)
                            THEN [src[j] EXCEPT !.content = <<"x">>] ELSE src[j]]
               h == mdRender(healed, <<>>, {})
           IN  /\ h.warnings = <<>>
               /\ linesMap = h.linesMap
               /\ \A j \in 1..Len(src) : j \notin Range(warnings) => html[j] = h.html[j]
        /\ \A i \in 1..Len(src) :
            (src[i].type \in {"katex_inline", "katex_block"} /\ src[i].content = <<"{">>)
            => (i \in Range(warnings) /\ html[i] = <<"{">>)

\* C7 witness: a block math token failed and a token after it was rendered.
C7_Witness ==
    /\ outcome = "returned"
    /\ \E i \in Range(warnings) :
        /\ src[i].type = "katex_block"
        /\ i < Len(src)
        /\ html[i + 1] # <<>>

\* C8: the fenced-code override dispatches on the language tag three ways:
\* diagram emits the base64-decoded content unescaped in <pre class="diagram">;
\* mermaid and plantuml emit the escaped content in
\* <pre class="codeblock-<tag>"><code>, never decoded; every other tag goes to
\* the highlighter, by name with illegal-token tolerance when a tag is
\* present and by auto-detection when it is absent.
C8_ThreeWayDispatch ==
    outcome # "none" =>
        LET f == FenceOf(src)
            str == f.content
            lang == f.info
            chunk == html[Len(src)]
        IN  CASE lang = "diagram" ->
                    /\ outcome = "returned"
                    /\ chunk = <<"<pre class=\"diagram\">">> \o base64Decode(str)
                                \o <<"</pre>", "\n">>
                    /\ hljsCalls = <<>>
                    /\ str = <<"P", "P">> => chunk[2] = "<"
              [] lang \in {"mermaid", "plantuml"} ->
                    /\ outcome = "returned"
                    /\ chunk = <<"<pre class=\"codeblock-" \o lang \o "\">", "<code>">>
                                \o escape(str) \o <<"</code>", "</pre>", "\n">>
                    /\ hljsCalls = <<>>
                    /\ "<" \notin Range(chunk)
              [] OTHER ->
                    /\ hljsCalls =
                        <<IF lang = ""
                          THEN [fn |-> "highlightAuto", language |-> "", ignoreIllegals |-> FALSE]
                          ELSE [fn |-> "highlight", language |-> lang, ignoreIllegals |-> TRUE]>>
                    /\ outcome = "returned" =>
                        /\ chunk[2] = "<code class=\"language-" \o lang \o "\">"
                        /\ chunk[1] \in {"<pre class=\"codeblock line-numbers\">",
                                         "<pre class=\"codeblock false\">"}

\* C8 witness: a plantuml block whose content decodes to something else than
\* it escapes to.
C8_Witness ==
    /\ outcome = "returned"
    /\ FenceOf(src).info = "plantuml"
    /\ "P" \in Range(FenceOf(src).content)
    /\ "<" \in Range(FenceOf(src).content)
    /\ base64Decode(FenceOf(src).content) # escape(FenceOf(src).content)

\* C9: for a highlighted block with n newlines in the highlighted output,
\* n > 1 gives exactly n gutter markers inside one gutter element and the
\* line-numbers class on <pre>; otherwise there is no gutter element, no
\* marker and no line-numbers class.
C9_GutterPerLine ==
    (outcome = "returned" /\ hljsCalls # <<>>) =>
        LET chunk == html[Len(src)]
            n == Count(chunk, "\n") - 1
            gutter == "<span aria-hidden=\"true\" class=\"line-numbers-rows\">"
        IN  IF n > 1
            THEN /\ Count(chunk, "<span></span>") = n
                 /\ Count(chunk, gutter) = 1
                 /\ chunk[1] = "<pre class=\"codeblock line-numbers\">"
            ELSE /\ Count(chunk, "<span></span>") = 0
                 /\ Count(chunk, gutter) = 0
                 /\ chunk[1] # "<pre class=\"codeblock line-numbers\">"

\* C9 witness: a five-line block highlighted by name, with five markers.
C9_Witness ==
    /\ outcome = "returned"
    /\ FenceOf(src).info = "js"
    /\ Count(FenceOf(src).content, "\n") = 5
    /\ Count(html[Len(src)], "<span></span>") = 5

\* C10: refreshToken issues a token, from users.refreshToken, only when the
\* token argument is present, verifies (signature, audience, issuer) and has
\* an exp not older than the clock minus tokenRenewal; when one of the three
\* fails it returns ERR_MISSING_TOKEN, ERR_INVALID_TOKEN or ERR_EXPIRED_TOKEN
\* in that order of precedence and users.refreshToken is not called.
C10_RefreshOnlyAfterThreeChecks ==
    authCall # <<>> =>
        LET arg == authCall[1]
            at == authCall[2]
            res == authResult[1]
            failure(code) ==
                /\ res.jwt = <<>>
                /\ res.operation.succeeded = FALSE
                /\ res.operation.message = code
                /\ refreshCalls = <<>>
        IN  IF arg = <<>> THEN failure("ERR_MISSING_TOKEN")
            ELSE IF ~(arg[1].sig /\ arg[1].aud = Audience /\ arg[1].iss = "urn:wiki.js")
            THEN failure("ERR_INVALID_TOKEN")
            ELSE IF arg[1].exp * 1000 < at - ms(tokenRenewal)
            THEN failure("ERR_EXPIRED_TOKEN")
            ELSE /\ refreshCalls = <<arg[1].id>>
                 /\ res.jwt # <<>> => res.operation.succeeded

\* C10 witness: a token exactly tokenRenewal past its exp is refreshed.
C10_Witness ==
    /\ authCall # <<>>
    /\ authCall[1] # <<>>
    /\ authCall[1][1].exp > 0
    /\ authCall[1][1].exp * 1000 = authCall[2] - ms(tokenRenewal)
    /\ authResult[1].jwt # <<>>
    /\ refreshCalls # <<>>

====
